---- MODULE Spec2Model ----
(***************************************************************************)
(* GitInit (src/gitinit.py): the settings parser                           *)
(* get_dirs_and_repos_from_settings, the repository-name normalizer        *)
(* get_repo_name, and main with clone_repo and pull_repo over a file       *)
(* system and a git whose commands succeed or fail.                        *)
(*                                                                         *)
(* A Python str is a sequence of one-character strings, so that slicing,   *)
(* startswith/endswith, split, strip and expandtabs are computed as the    *)
(* library computes them.                                                  *)
(***************************************************************************)
EXTENDS Integers, Sequences, FiniteSets, TLC

VARIABLES
    read,            \* the lines of the settings file consumed so far (for line in f)
    indent_levels,   \* gitinit.py:123
    stack,           \* gitinit.py:122
    dirs_to_create,  \* gitinit.py:120
    git_repos,       \* gitinit.py:121
    branch,          \* which arm of the loop body the last line took
    pc,              \* "parsing", "returned" (line 170) or "raised"
    err,             \* the exception that left the function, or "none"
    git_url,         \* get_repo_name: its argument
    repo_name,       \* get_repo_name: its result
    repo_name2,      \* get_repo_name applied to its own result
    npc,             \* "start", "once", "twice"
    lead,            \* the leading whitespace of two lines, one below the other
    measured,        \* their indent_length and the stack after them, once done
    call,            \* 1 in the first call of the parser, 2 in the second
    first,           \* what the first call ended with
    settings,        \* main: the lines of the settings file
    args,            \* main: the command line, and what the environment provides
    fs,              \* main: what stands at each path of the file system
    mpc,             \* main: "start", "parse", "dirs", "clone", "pull", "done", "exit", "raised"
    directories,     \* main: what is left of sorted(dirs_to_create) at line 183
    repo_i,          \* main: the index in git_repos of the loops at lines 192, 197
    log,             \* main: the file system and git operations invoked so far
    merr             \* main: the exception that left main, or "none"

vars == <<read, indent_levels, stack, dirs_to_create, git_repos, branch, pc, err,
          git_url, repo_name, repo_name2, npc, lead, measured, call, first,
          settings, args, fs, mpc, directories, repo_i, log, merr>>

parserVars == <<read, indent_levels, stack, dirs_to_create, git_repos, branch, pc, err>>
nameVars == <<git_url, repo_name, repo_name2, npc>>
indentVars == <<lead, measured>>
twiceVars == <<call, first>>
mainVars == <<settings, args, fs, mpc, directories, repo_i, log, merr>>

----------------------------------------------------------------------------
(* Bounds *)

\* the number of lines of a settings file
MaxLines == 4

\* the number of parts a git_url given to get_repo_name is made of
MaxParts == 4

\* the number of blanks and tabs a line starts with
MaxLead == 4

----------------------------------------------------------------------------
(* Python str operations *)

Last(s) == s[Len(s)]

Front(s) == SubSeq(s, 1, Len(s) - 1)

\* s.startswith(p)
StartsWith(s, p) == Len(s) >= Len(p) /\ SubSeq(s, 1, Len(p)) = p

\* s.endswith(p)
EndsWith(s, p) == Len(s) >= Len(p) /\ SubSeq(s, Len(s) - Len(p) + 1, Len(s)) = p

\* c in s
Contains(s, c) == \E i \in 1..Len(s) : s[i] = c

\* the characters str.strip(), str.lstrip() and str.isspace() treat as whitespace
Whitespace == {" ", "\t", "\n", "\r", "\f"}

\* s.rstrip('\n')
RECURSIVE RStripNewline(_)
RStripNewline(s) ==
    IF s # <<>> /\ Last(s) = "\n" THEN RStripNewline(Front(s)) ELSE s

\* s.lstrip()
RECURSIVE LStrip(_)
LStrip(s) ==
    IF s # <<>> /\ Head(s) \in Whitespace THEN LStrip(Tail(s)) ELSE s

\* s.rstrip()
RECURSIVE RStrip(_)
RStrip(s) ==
    IF s # <<>> /\ Last(s) \in Whitespace THEN RStrip(Front(s)) ELSE s

\* s.strip()
Strip(s) == RStrip(LStrip(s))

\* s.split(sep)[-1] for a one-character sep: what follows the last sep, or all of s
RECURSIVE LastSegment(_, _)
LastSegment(s, sep) ==
    IF s = <<>> THEN <<>>
    ELSE IF Last(s) = sep THEN <<>>
    ELSE LastSegment(Front(s), sep) \o <<Last(s)>>

\* the tab size of expandtabs(4), gitinit.py:132
TabSize == 4

\* n spaces
Spaces(n) == [i \in 1..n |-> " "]

\* s.expandtabs(TabSize): a tab fills up to the next multiple of TabSize columns,
\* a newline or carriage return restarts the column count
RECURSIVE ExpandTabsFrom(_, _)
ExpandTabsFrom(s, col) ==
    IF s = <<>> THEN <<>>
    ELSE IF Head(s) = "\t"
         THEN Spaces(TabSize - (col % TabSize))
              \o ExpandTabsFrom(Tail(s), col + (TabSize - (col % TabSize)))
         ELSE <<Head(s)>>
              \o ExpandTabsFrom(Tail(s), IF Head(s) \in {"\n", "\r"} THEN 0 ELSE col + 1)

\* expandtabs with every tab replaced by TabSize spaces, wherever it stands
RECURSIVE ExpandTabs_FixedWidth(_)
ExpandTabs_FixedWidth(s) ==
    IF s = <<>> THEN <<>>
    ELSE IF Head(s) = "\t" THEN Spaces(TabSize) \o ExpandTabs_FixedWidth(Tail(s))
    ELSE <<Head(s)>> \o ExpandTabs_FixedWidth(Tail(s))

ExpandTabs(s) == ExpandTabsFrom(s, 0)

----------------------------------------------------------------------------
(* os.path.join and os.path.expanduser (posixpath), as used at lines 156-157, 167-168 *)

Sep == "/"

\* one step of posixpath.join: path joined with the next component b
JoinTwo(path, b) ==
    IF StartsWith(b, <<Sep>>) THEN b
    ELSE IF path = <<>> \/ EndsWith(path, <<Sep>>) THEN path \o b
    ELSE path \o <<Sep>> \o b

RECURSIVE JoinFrom(_, _)
JoinFrom(path, rest) ==
    IF rest = <<>> THEN path ELSE JoinFrom(JoinTwo(path, Head(rest)), Tail(rest))

\* os.path.join(*segs) for a non-empty segs; os.path.join() with no argument raises
\* TypeError and is handled where it is called
PathJoin(segs) == JoinFrom(Head(segs), Tail(segs))

\* $HOME of the user running the tool
HomeDir == <<"/", "r", "o", "o", "t">>

\* path.find('/', 1): the 1-based position of the first '/' after the first character,
\* or Len(path) + 1 when there is none
RECURSIVE FindSepFrom(_, _)
FindSepFrom(path, i) ==
    IF i > Len(path) THEN Len(path) + 1
    ELSE IF path[i] = Sep THEN i
    ELSE FindSepFrom(path, i + 1)

\* userhome.rstrip('/')
RECURSIVE RStripSep(_)
RStripSep(s) ==
    IF s # <<>> /\ Last(s) = Sep THEN RStripSep(Front(s)) ELSE s

\* os.path.expanduser(path): "~" and "~/..." take $HOME; "~name" names a user of
\* the password database, none of which the inputs name, and stays as it is
ExpandUser(path) ==
    IF ~StartsWith(path, <<"~">>) THEN path
    ELSE LET i == FindSepFrom(path, 2)
             expanded == RStripSep(HomeDir) \o SubSeq(path, i, Len(path))
         IN IF i # 2 THEN path
            ELSE IF expanded = <<>> THEN <<Sep>> ELSE expanded

----------------------------------------------------------------------------
(* get_dirs_and_repos_from_settings, the body of the loop over the lines *)

\* the test of line 128 without the strip: only the empty line is skipped
IsBlank_EmptyOnly(line) == line = <<>>

\* line 128: not line.strip()
IsBlank(line) == Strip(line) = <<>>

\* line 131: line[:len(line) - len(line.lstrip())]
LeadingWhitespace(line) == SubSeq(line, 1, Len(line) - Len(LStrip(line)))

\* line 132: len(leading_whitespace.expandtabs(4))
IndentLength(line) == Len(ExpandTabs(LeadingWhitespace(line)))

\* line 133: line.strip()
Content(line) == Strip(line)

\* lines 142-144: while indent_levels and indent_length < indent_levels[-1]:
\*                    indent_levels.pop(); stack.pop()
\* list.pop() of an empty list raises IndexError
RECURSIVE PopDeeper(_, _, _)
PopDeeper(levels, stk, w) ==
    IF levels # <<>> /\ w < Last(levels)
    THEN IF stk = <<>>
         THEN [levels |-> Front(levels), stk |-> stk, err |-> "IndexError"]
         ELSE PopDeeper(Front(levels), Front(stk), w)
    ELSE [levels |-> levels, stk |-> stk, err |-> "none"]

\* lines 134-147 with >= for > at line 137: an equal width is pushed as a new level
AdjustLevels_PushOnEqual(levels, stk, w) ==
    IF levels = <<>>
    THEN [levels |-> <<w>>, stk |-> stk, err |-> "none"]
    ELSE IF w >= Last(levels)
    THEN [levels |-> Append(levels, w), stk |-> stk, err |-> "none"]
    ELSE LET p == PopDeeper(levels, stk, w)
         IN IF p.err = "none" /\ p.levels # <<>> /\ w # Last(p.levels)
            THEN [p EXCEPT !.levels = Append(p.levels, w)]
            ELSE p

\* lines 134-147 without lines 145-147: a dedent to an unseen width adds no level
AdjustLevels_NoRelevel(levels, stk, w) ==
    IF levels = <<>>
    THEN [levels |-> <<w>>, stk |-> stk, err |-> "none"]
    ELSE IF w > Last(levels)
    THEN [levels |-> Append(levels, w), stk |-> stk, err |-> "none"]
    ELSE PopDeeper(levels, stk, w)

\* lines 134-147: the indent_levels (and stack) after a line of width w
AdjustLevels(levels, stk, w) ==
    IF levels = <<>>
    THEN [levels |-> <<w>>, stk |-> stk, err |-> "none"]
    ELSE IF w > Last(levels)
    THEN [levels |-> Append(levels, w), stk |-> stk, err |-> "none"]
    ELSE LET p == PopDeeper(levels, stk, w)
         IN IF p.err = "none" /\ p.levels # <<>> /\ w # Last(p.levels)
            THEN [p EXCEPT !.levels = Append(p.levels, w)]
            ELSE p

\* lines 149-150 without the - 1: the entry at the line's own level is kept
RECURSIVE TrimStack_KeepsSibling(_, _)
TrimStack_KeepsSibling(levels, stk) ==
    IF Len(stk) > Len(levels)
    THEN IF stk = <<>>
         THEN [stk |-> stk, err |-> "IndexError"]
         ELSE TrimStack_KeepsSibling(levels, Front(stk))
    ELSE [stk |-> stk, err |-> "none"]

\* lines 149-150: while len(stack) > len(indent_levels) - 1: stack.pop()
RECURSIVE TrimStack(_, _)
TrimStack(levels, stk) ==
    IF Len(stk) > Len(levels) - 1
    THEN IF stk = <<>>
         THEN [stk |-> stk, err |-> "IndexError"]
         ELSE TrimStack(levels, Front(stk))
    ELSE [stk |-> stk, err |-> "none"]

DotGit == <<".", "g", "i", "t">>
GitAt == <<"g", "i", "t", "@">>
Https == <<"h", "t", "t", "p", "s", ":", "/", "/">>

\* line 153 without the prefix test
IsGitRepo_SuffixOnly(content) == EndsWith(content, DotGit)

\* line 153: the test that makes a line a git repository
IsGitRepo(content) ==
    EndsWith(content, DotGit) /\ (StartsWith(content, GitAt) \/ StartsWith(content, Https))

\* lines 134-151: the stack adjusted to the line's width, the content pushed
PushLine(levels, stk, w, content) ==
    LET a == AdjustLevels(levels, stk, w)
        t == TrimStack(a.levels, a.stk)
    IN IF a.err # "none" THEN [levels |-> a.levels, stk |-> a.stk, err |-> a.err]
       ELSE IF t.err # "none" THEN [levels |-> a.levels, stk |-> t.stk, err |-> t.err]
       ELSE [levels |-> a.levels, stk |-> Append(t.stk, content), err |-> "none"]

\* the repository arm without line 160
RepoDirs_NotAdded(dirs, path) == dirs

\* line 160: dirs_to_create.add(path) in the repository arm
RepoDirs(dirs, path) == dirs \cup {path}

\* lines 153-169: the line classified and recorded, given the stack with the line on it
Classify(st, content) ==
    IF IsGitRepo(content)
    THEN IF Front(st.stack) = <<>>
         THEN \* line 156: os.path.join() without arguments raises TypeError
              [st EXCEPT !.branch = "repo", !.err = "TypeError"]
         ELSE LET path == ExpandUser(PathJoin(Front(st.stack)))
              IN [st EXCEPT !.branch = "repo",
                            !.dirs_to_create = RepoDirs(@, path),
                            !.git_repos = Append(@, [path |-> path, git_url |-> content])]
    ELSE LET path == ExpandUser(PathJoin(st.stack))
         IN [st EXCEPT !.branch = "dir", !.dirs_to_create = @ \cup {path}]

\* lines 127-169: the loop body for one line of the file
LineStep(st, rawline) ==
    LET line == RStripNewline(rawline)
    IN IF IsBlank(line) THEN [st EXCEPT !.branch = "blank"]
       ELSE LET p == PushLine(st.indent_levels, st.stack, IndentLength(line), Content(line))
                pushed == [st EXCEPT !.indent_levels = p.levels, !.stack = p.stk,
                                     !.err = p.err, !.branch = "none"]
            IN IF p.err # "none" THEN pushed ELSE Classify(pushed, Content(line))

\* lines 120-123: the state before the first line
ParserStart ==
    [indent_levels |-> <<>>, stack |-> <<>>, dirs_to_create |-> {}, git_repos |-> <<>>,
     branch |-> "none", err |-> "none"]

\* lines 125-170 on a whole file: the state at the return, or at the raise
RECURSIVE ParseFrom(_, _)
ParseFrom(st, lines) ==
    IF lines = <<>> \/ st.err # "none" THEN st
    ELSE ParseFrom(LineStep(st, Head(lines)), Tail(lines))

Parse(lines) == ParseFrom(ParserStart, lines)

----------------------------------------------------------------------------
(* get_repo_name *)

\* the length of the suffix cut by git_url[:-4], gitinit.py:12
SuffixLen == 4

\* lines 10-16 without the test of line 11: the last four characters are always cut
get_repo_name_AlwaysCut(url) ==
    LET stripped == SubSeq(url, 1, Len(url) - SuffixLen)
        name == LastSegment(stripped, "/")
    IN IF Contains(name, ":") THEN LastSegment(name, ":") ELSE name

\* lines 10-16 without lines 14-15: what precedes a ":" is kept
get_repo_name_NoColonSplit(url) ==
    LET stripped == IF EndsWith(url, DotGit)
                    THEN SubSeq(url, 1, Len(url) - SuffixLen)
                    ELSE url
    IN LastSegment(stripped, "/")

\* s with every trailing ".git" cut
RECURSIVE StripEveryDotGit(_)
StripEveryDotGit(s) ==
    IF EndsWith(s, DotGit) THEN StripEveryDotGit(SubSeq(s, 1, Len(s) - SuffixLen)) ELSE s

\* lines 10-16 with the suffix cut as long as there is one
get_repo_name_CutsEverySuffix(url) ==
    LET name == LastSegment(StripEveryDotGit(url), "/")
    IN IF Contains(name, ":") THEN LastSegment(name, ":") ELSE name

\* lines 10-16
get_repo_name(url) ==
    LET stripped == IF EndsWith(url, DotGit)
                    THEN SubSeq(url, 1, Len(url) - SuffixLen)
                    ELSE url
        name == LastSegment(stripped, "/")
    IN IF Contains(name, ":") THEN LastSegment(name, ":") ELSE name

----------------------------------------------------------------------------
(* Inputs *)

ProjLine == <<"p", "r", "o", "j", "\n">>
Example2Line == <<" ", " ", " ", " ", "h", "t", "t", "p", "s", ":", "/", "/", "g", "i", "t",
                  ".", "a", "d", "d", "r", "/", "e", "x", "a", "m", "p", "l", "e", "2", ".",
                  "g", "i", "t", "\n">>
SubLine == <<" ", " ", " ", " ", "s", "u", "b", "\n">>
ChildLine == <<" ", " ", " ", " ", " ", " ", " ", " ", "g", "i", "t", "@", "h", "o", "s", "t",
               ":", "t", "e", "a", "m", "/", "c", "h", "i", "l", "d", ".", "g", "i", "t", "\n">>
EmptyLine == <<"\n">>
SpacesLine == <<" ", " ", "\n">>
\* a name that ends in .git without a remote prefix, with trailing whitespace
DotGitNameLine == <<" ", " ", " ", " ", "x", ".", "g", "i", "t", " ", "\n">>
\* a remote prefix without the .git suffix
NoSuffixLine == <<" ", " ", " ", " ", " ", " ", " ", " ", "h", "t", "t", "p", "s", ":", "/",
                  "/", "x", "\n">>
HomeLine == <<"~", "\n">>
\* an absolute path below another name
AbsLine == <<" ", " ", " ", " ", "/", "o", "p", "t", "\n">>
\* a tab-indented name, the last line of a file without a final newline
TabLine == <<"\t", "l", "i", "b">>

\* the lines a settings file is made of
SettingsLines ==
    {ProjLine, Example2Line, SubLine, ChildLine, EmptyLine, SpacesLine, DotGitNameLine,
     NoSuffixLine, HomeLine, AbsLine, TabLine}

\* the parts a git_url is made of
UrlParts == {<<"a">>, <<"b">>, <<"/">>, <<":">>, DotGit}

RECURSIVE UrlsOf(_)
UrlsOf(n) ==
    IF n = 0 THEN {<<>>}
    ELSE LET shorter == UrlsOf(n - 1)
         IN shorter \cup {u \o p : u \in shorter, p \in UrlParts}

\* src/test.py:7-8
TestUrls ==
    {<<"g", "i", "t", "@", "g", "i", "t", "h", "u", "b", ".", "c", "o", "m", ":", "T", "o",
       "m", "L", "B", "Z", "/", "G", "i", "t", "I", "n", "i", "t", ".", "g", "i", "t">>,
     <<"h", "t", "t", "p", "s", ":", "/", "/", "g", "i", "t", ".", "a", "d", "d", "r", "/",
       "e", "x", "a", "m", "p", "l", "e", "2", ".", "g", "i", "t">>}

\* the parts a repository name is made of: no "/", no ":"
NameParts == {<<"a">>, <<"b">>, DotGit}

RECURSIVE NamesOf(_)
NamesOf(n) ==
    IF n = 0 THEN {<<>>}
    ELSE LET shorter == NamesOf(n - 1)
         IN shorter \cup {u \o p : u \in shorter, p \in NameParts}

RepoNames == NamesOf(MaxParts)

\* git@h:g/<name>.git
SshGroupUrl(name) == <<"g", "i", "t", "@", "h", ":", "g", "/">> \o name \o DotGit

\* git@h:<name>.git
SshUrl(name) == <<"g", "i", "t", "@", "h", ":">> \o name \o DotGit

\* https://h/p/<name>.git
HttpsUrl(name) == <<"h", "t", "t", "p", "s", ":", "/", "/", "h", "/", "p", "/">> \o name \o DotGit

\* git@github.com:user/Example.git
ExampleUrl ==
    <<"g", "i", "t", "@", "g", "i", "t", "h", "u", "b", ".", "c", "o", "m", ":", "u", "s",
      "e", "r", "/", "E", "x", "a", "m", "p", "l", "e", ".", "g", "i", "t">>

RemoteUrls ==
    {SshGroupUrl(n) : n \in RepoNames} \cup {SshUrl(n) : n \in RepoNames}
        \cup {HttpsUrl(n) : n \in RepoNames} \cup {ExampleUrl}

UrlInputs == UrlsOf(MaxParts) \cup TestUrls \cup RemoteUrls

\* the settings file of the worked example
Scenario == <<ProjLine, Example2Line, SubLine, ChildLine>>

----------------------------------------------------------------------------
(* The parser as a state machine: one step per line of the file *)

ParserState ==
    [indent_levels |-> indent_levels, stack |-> stack, dirs_to_create |-> dirs_to_create,
     git_repos |-> git_repos, branch |-> branch, err |-> err]

ParserInit ==
    /\ read = <<>>
    /\ indent_levels = ParserStart.indent_levels
    /\ stack = ParserStart.stack
    /\ dirs_to_create = ParserStart.dirs_to_create
    /\ git_repos = ParserStart.git_repos
    /\ branch = ParserStart.branch
    /\ err = ParserStart.err
    /\ pc = "parsing"

NameInit ==
    /\ repo_name = <<>>
    /\ repo_name2 = <<>>
    /\ npc = "start"

\* before the two lines are measured
NotMeasured == [done |-> FALSE, upper |-> 0, lower |-> 0, stack |-> <<>>, err |-> "none"]

\* the two-line measurement is not under way
IndentIdle ==
    /\ lead = <<>>
    /\ measured = NotMeasured

\* before the first call has ended
NoFirst == [read |-> <<>>, dirs_to_create |-> {}, git_repos |-> <<>>, pc |-> "none",
            err |-> "none"]

\* the parser is in its first call
FirstCall ==
    /\ call = 1
    /\ first = NoFirst

\* main is not running
MainIdle ==
    /\ settings = <<>>
    /\ args = [clone |-> FALSE, pull |-> FALSE, force |-> FALSE, git |-> TRUE, file |-> TRUE]
    /\ fs = <<>>
    /\ mpc = "idle"
    /\ directories = <<>>
    /\ repo_i = 0
    /\ log = <<>>
    /\ merr = "none"

Init ==
    /\ ParserInit
    /\ NameInit
    /\ git_url = <<>>
    /\ IndentIdle
    /\ FirstCall
    /\ MainIdle

\* a line of the file ends with its newline, except the last one of a file that has
\* no final newline
MoreLines == IF read = <<>> THEN TRUE ELSE Last(Last(read)) = "\n"

\* lines 126-169: the next line of the file goes through the loop body
ReadLine ==
    /\ pc = "parsing"
    /\ Len(read) < MaxLines
    /\ MoreLines
    /\ \E line \in SettingsLines :
         LET st == LineStep(ParserState, line)
         IN /\ read' = Append(read, line)
            /\ indent_levels' = st.indent_levels
            /\ stack' = st.stack
            /\ dirs_to_create' = st.dirs_to_create
            /\ git_repos' = st.git_repos
            /\ branch' = st.branch
            /\ err' = st.err
            /\ pc' = IF st.err = "none" THEN "parsing" ELSE "raised"
    /\ UNCHANGED <<nameVars, indentVars, twiceVars, mainVars>>

\* line 170: the file is exhausted, the function returns
Return ==
    /\ pc = "parsing"
    /\ pc' = "returned"
    /\ UNCHANGED <<read, indent_levels, stack, dirs_to_create, git_repos, branch, err>>
    /\ UNCHANGED <<nameVars, indentVars, twiceVars, mainVars>>

Next == ReadLine \/ Return

Spec == Init /\ [][Next]_vars

----------------------------------------------------------------------------
(* get_repo_name as a state machine: applied to an input, then to its own result *)

InitName ==
    /\ ParserInit
    /\ NameInit
    /\ git_url \in UrlInputs
    /\ IndentIdle
    /\ FirstCall
    /\ MainIdle

\* repo_name = get_repo_name(git_url), as at line 24
Normalize ==
    /\ npc = "start"
    /\ repo_name' = get_repo_name(git_url)
    /\ npc' = "once"
    /\ UNCHANGED <<git_url, repo_name2>>
    /\ UNCHANGED <<parserVars, indentVars, twiceVars, mainVars>>

\* get_repo_name applied to the name it returned
Renormalize ==
    /\ npc = "once"
    /\ repo_name2' = get_repo_name(repo_name)
    /\ npc' = "twice"
    /\ UNCHANGED <<git_url, repo_name>>
    /\ UNCHANGED <<parserVars, indentVars, twiceVars, mainVars>>

NextName == Normalize \/ Renormalize

SpecName == InitName /\ [][NextName]_vars

----------------------------------------------------------------------------
(* The indentation of two lines, one below the other *)

\* the strings of at most n blanks and tabs
RECURSIVE LeadsOf(_)
LeadsOf(n) ==
    IF n = 0 THEN {<<>>}
    ELSE LET shorter == LeadsOf(n - 1)
         IN shorter \cup {u \o <<c>> : u \in shorter, c \in {" ", "\t"}}

\* the two lines of the file: the names a and b behind their leading whitespace
UpperLine == lead[1] \o <<"a", "\n">>
LowerLine == lead[2] \o <<"b", "\n">>

InitIndent ==
    /\ ParserInit
    /\ NameInit
    /\ git_url = <<>>
    /\ lead \in LeadsOf(MaxLead) \X LeadsOf(MaxLead)
    /\ measured = NotMeasured
    /\ FirstCall
    /\ MainIdle

\* lines 126-151 on the two lines: their indent_length, and the stack after them
Measure ==
    /\ ~measured.done
    /\ LET st == Parse(<<UpperLine, LowerLine>>)
       IN measured' = [done |-> TRUE,
                       upper |-> IndentLength(RStripNewline(UpperLine)),
                       lower |-> IndentLength(RStripNewline(LowerLine)),
                       stack |-> st.stack,
                       err |-> st.err]
    /\ UNCHANGED <<lead, parserVars, nameVars, twiceVars, mainVars>>

NextIndent == Measure

SpecIndent == InitIndent /\ [][NextIndent]_vars

----------------------------------------------------------------------------
(* The parser called a second time on the same file *)

\* lines 120-123: every call starts with its own empty locals, whatever the call
\* before left
FreshLocals(prev) == ParserStart

FirstRead == call = 1 /\ ReadLine

FirstReturn == call = 1 /\ Return

\* lines 119-170 again, on the lines the first call read
ParseAgain ==
    /\ call = 1
    /\ pc \in {"returned", "raised"}
    /\ call' = 2
    /\ first' = [read |-> read, dirs_to_create |-> dirs_to_create, git_repos |-> git_repos,
                 pc |-> pc, err |-> err]
    /\ LET st == ParseFrom(FreshLocals(ParserState), read)
       IN /\ indent_levels' = st.indent_levels
          /\ stack' = st.stack
          /\ dirs_to_create' = st.dirs_to_create
          /\ git_repos' = st.git_repos
          /\ branch' = st.branch
          /\ err' = st.err
          /\ pc' = IF st.err = "none" THEN "returned" ELSE "raised"
    /\ UNCHANGED <<read, nameVars, indentVars, mainVars>>

NextTwice == FirstRead \/ FirstReturn \/ ParseAgain

SpecTwice == Init /\ [][NextTwice]_vars

----------------------------------------------------------------------------
(* sorted(dirs_to_create), line 183: Python orders str by code point *)

\* the printable ASCII characters, from code point 32 to 126; the place of
\* code point 96, which a string of this language cannot hold, is left empty
Printable ==
    <<
       " ", "!", "\"", "#", "$", "%", "&", "'", "(", ")", "*", "+",
       ",", "-", ".", "/", "0", "1", "2", "3", "4", "5", "6", "7",
       "8", "9", ":", ";", "<", "=", ">", "?", "@", "A", "B", "C",
       "D", "E", "F", "G", "H", "I", "J", "K", "L", "M", "N", "O",
       "P", "Q", "R", "S", "T", "U", "V", "W", "X", "Y", "Z", "[",
       "\\", "]", "^", "_", "", "a", "b", "c", "d", "e", "f", "g",
       "h", "i", "j", "k", "l", "m", "n", "o", "p", "q", "r", "s",
       "t", "u", "v", "w", "x", "y", "z", "{", "|", "}", "~"
    >>

\* ord(c)
Ord(c) ==
    IF \E k \in 1..Len(Printable) : Printable[k] = c
    THEN (CHOOSE k \in 1..Len(Printable) : Printable[k] = c) + 31
    ELSE 0

\* a < b for two str
RECURSIVE StrLess(_, _)
StrLess(a, b) ==
    IF b = <<>> THEN FALSE
    ELSE IF a = <<>> THEN TRUE
    ELSE IF Head(a) = Head(b) THEN StrLess(Tail(a), Tail(b))
    ELSE Ord(Head(a)) < Ord(Head(b))

\* the first of sorted(S)
Smallest(S) == CHOOSE p \in S : \A q \in S \ {p} : StrLess(p, q)

\* sorted(S) as a list
RECURSIVE Sorted(_)
Sorted(S) ==
    IF S = {} THEN <<>>
    ELSE LET p == Smallest(S) IN <<p>> \o Sorted(S \ {p})

----------------------------------------------------------------------------
(* The file system main works on, and get_repo_status *)

\* what stands at a path: nothing, a regular file, a directory, or a directory
\* that holds a .git directory
Kinds == {"absent", "file", "dir", "repo"}

\* os.path.exists(p) and os.path.isdir(p)
Exists(f, p) == f[p] # "absent"
IsDir(f, p) == f[p] \in {"dir", "repo"}

\* q is a directory above p
IsAncestor(q, p) == q # p /\ StartsWith(p, Append(q, Sep))

\* nothing stands below what is not a directory
Consistent(f) ==
    \A p \in DOMAIN f : \A q \in DOMAIN f :
        (IsAncestor(q, p) /\ Exists(f, p)) => IsDir(f, q)

\* get_repo_status, lines 22-27
FullRepoPath(repo) == PathJoin(<<repo.path, get_repo_name(repo.git_url)>>)

RepoStatus(f, repo) ==
    [parent_dir     |-> repo.path,
     full_repo_path |-> FullRepoPath(repo),
     exists         |-> IsDir(f, FullRepoPath(repo)),
     is_git_repo    |-> f[FullRepoPath(repo)] = "repo"]

\* the paths a run on this settings file looks at
PathsOf(lines) ==
    LET st == Parse(lines)
    IN  IF st.err # "none" THEN {}
        ELSE st.dirs_to_create
             \cup {FullRepoPath(st.git_repos[i]) : i \in 1..Len(st.git_repos)}

\* os.makedirs(p): p and every missing directory above it
MakeDirs(f, p) ==
    [q \in DOMAIN f |->
        IF (q = p \/ IsAncestor(q, p)) /\ f[q] = "absent" THEN "dir" ELSE f[q]]

\* os.makedirs(p) raises when a regular file stands above p
MakeDirsRaises(f, p) == \E q \in DOMAIN f : IsAncestor(q, p) /\ f[q] = "file"

\* shutil.rmtree(p): p and everything below it
RmTree(f, p) ==
    [q \in DOMAIN f |-> IF q = p \/ IsAncestor(p, q) THEN "absent" ELSE f[q]]

\* shutil.rmtree(p) that raised: it stops at the first entry it cannot remove,
\* so p is still a directory, and each thing it held is there or gone
RmTreeFailed(f, p) ==
    {g \in [DOMAIN f -> Kinds] :
        /\ Consistent(g)
        /\ \A q \in DOMAIN f :
              IF q = p THEN g[q] \in {f[q], "dir"}
              ELSE IF IsAncestor(p, q)
              THEN g[q] \in {f[q], "absent"} \cup (IF f[q] = "repo" THEN {"dir"} ELSE {})
              ELSE g[q] = f[q]}

\* git clone leaves a repository at p
Cloned(f, p) == [f EXCEPT ![p] = "repo"]

\* git clone that exited with a status other than 0: nothing, a directory or
\* the whole clone stands at p
CloneFailed(f, p) ==
    IF f[p] = "absent" THEN {f, [f EXCEPT ![p] = "dir"], Cloned(f, p)} ELSE {f}

\* what subprocess raises when cwd is not a directory, lines 52 and 89: a
\* regular file at cwd or above it gives ENOTDIR, nothing at cwd gives ENOENT
CwdError(f, cwd) ==
    IF IsDir(f, cwd) THEN "none"
    ELSE IF f[cwd] = "file" \/ \E q \in DOMAIN f : IsAncestor(q, cwd) /\ f[q] = "file"
    THEN "NotADirectoryError"
    ELSE "FileNotFoundError"

----------------------------------------------------------------------------
(* main, clone_repo and pull_repo as a state machine *)

\* the settings files main is run on: the worked example, and a file whose
\* first line is a repository line
SettingsFiles == {Scenario, <<Example2Line>>}

\* one operation main invoked: repo is the index of the descriptor, or 0
Ev(op, i, path, ok) == [op |-> op, repo |-> i, path |-> path, ok |-> ok]

\* the order of the phases of main, lines 180, 183, 191, 196: a mutation pulls
\* before it clones
MainOrder_PullFirst == <<"parse", "dirs", "pull", "clone", "done">>

MainOrder == <<"parse", "dirs", "clone", "pull", "done">>

\* the loop of a phase has something to run through
HasWork(phase, a, dirs, repos) ==
    IF phase = "dirs" THEN dirs # {}
    ELSE IF phase = "clone" THEN a.clone /\ repos # <<>>
    ELSE IF phase = "pull" THEN a.pull /\ repos # <<>>
    ELSE TRUE

PlaceOf(phase) == CHOOSE k \in 1..Len(MainOrder) : MainOrder[k] = phase

\* the phase main is in once the given one is over
PhaseAfter(phase, a, dirs, repos) ==
    LET later == {k \in (PlaceOf(phase) + 1)..Len(MainOrder) :
                     HasWork(MainOrder[k], a, dirs, repos)}
    IN  MainOrder[CHOOSE k \in later : \A j \in later : k <= j]

\* the branch clone_repo takes, lines 68-89: a mutation removes the directory
\* whether or not force is set
ClonePlan_RemovesWithoutForce(exists, is_git_repo, same_url, force) ==
    IF exists THEN "remove" ELSE "clone"

ClonePlan(exists, is_git_repo, same_url, force) ==
    IF exists
    THEN IF force THEN "remove"
         ELSE IF is_git_repo /\ same_url THEN "same"
         ELSE IF is_git_repo THEN "different"
         ELSE "notgit"
    ELSE "clone"

\* the branch pull_repo takes, lines 99-109
PullPlan(exists, is_git_repo) ==
    IF exists /\ is_git_repo THEN "pull"
    ELSE IF exists THEN "notgit"
    ELSE "missing"

\* the git commands of pull_repo, lines 100-104, given which of them succeed:
\* a mutation gives up the pull when the stash fails
PullCommands_StopOnStashFailure(i, path, force, stash_ok, drop_ok, pull_ok) ==
    IF force
    THEN IF stash_ok
         THEN <<Ev("stash", i, path, TRUE), Ev("drop", i, path, drop_ok),
                Ev("pull", i, path, pull_ok)>>
         ELSE <<Ev("stash", i, path, FALSE)>>
    ELSE <<Ev("pull", i, path, pull_ok)>>

PullCommands(i, path, force, stash_ok, drop_ok, pull_ok) ==
    (IF force
     THEN <<Ev("stash", i, path, stash_ok)>>
          \o (IF stash_ok THEN <<Ev("drop", i, path, drop_ok)>> ELSE <<>>)
     ELSE <<>>)
    \o <<Ev("pull", i, path, pull_ok)>>

\* get_existing_remote_url, lines 41-48: the url asked for, another one, or None
RemoteAnswers == {"same", "other", "failed"}

\* the call of get_existing_remote_url of get_repo_status, lines 29-30
RemoteQuery(i, status, answer) ==
    IF status.is_git_repo
    THEN <<Ev("remote", i, status.full_repo_path, answer # "failed")>>
    ELSE <<>>

InitMain ==
    /\ ParserInit
    /\ NameInit
    /\ git_url = <<>>
    /\ IndentIdle
    /\ FirstCall
    /\ settings \in SettingsFiles
    /\ args \in [clone : BOOLEAN, pull : BOOLEAN, force : BOOLEAN,
                 git : BOOLEAN, file : BOOLEAN]
    /\ fs \in {f \in [PathsOf(settings) -> Kinds] : Consistent(f)}
    /\ mpc = "start"
    /\ directories = <<>>
    /\ repo_i = 0
    /\ log = <<>>
    /\ merr = "none"

\* lines 174-176
CheckGit ==
    /\ mpc = "start"
    /\ mpc' = IF args.git THEN "parse" ELSE "exit"
    /\ merr' = IF args.git THEN "none" ELSE "SystemExit"
    /\ UNCHANGED <<settings, args, fs, directories, repo_i, log>>
    /\ UNCHANGED <<parserVars, nameVars, indentVars, twiceVars>>

\* lines 178-180
ParseSettings ==
    /\ mpc = "parse"
    /\ IF ~args.file
       THEN /\ mpc' = "raised"
            /\ merr' = "FileNotFoundError"
            /\ UNCHANGED <<parserVars, directories, repo_i, log>>
       ELSE LET st == Parse(settings)
            IN  /\ read' = settings
                /\ indent_levels' = st.indent_levels
                /\ stack' = st.stack
                /\ dirs_to_create' = st.dirs_to_create
                /\ git_repos' = st.git_repos
                /\ branch' = st.branch
                /\ err' = st.err
                /\ pc' = IF st.err = "none" THEN "returned" ELSE "raised"
                /\ IF st.err = "none"
                   THEN /\ mpc' = PhaseAfter("parse", args, st.dirs_to_create, st.git_repos)
                        /\ merr' = "none"
                        /\ directories' = Sorted(st.dirs_to_create)
                        /\ repo_i' = 1
                        /\ log' = Append(log, Ev("parse", 0, <<>>, TRUE))
                   ELSE /\ mpc' = "raised"
                        /\ merr' = st.err
                        /\ UNCHANGED <<directories, repo_i, log>>
    /\ UNCHANGED <<settings, args, fs>>
    /\ UNCHANGED <<nameVars, indentVars, twiceVars>>

\* one turn of the loop at lines 183-188
MakeDirectory ==
    /\ mpc = "dirs"
    /\ directories # <<>>
    /\ LET directory == Head(directories)
       IN  IF Exists(fs, directory)
           THEN /\ log' = Append(log, Ev("found", 0, directory, TRUE))
                /\ fs' = fs
                /\ directories' = Tail(directories)
                /\ mpc' = IF Tail(directories) = <<>>
                          THEN PhaseAfter("dirs", args, dirs_to_create, git_repos)
                          ELSE "dirs"
                /\ merr' = "none"
           ELSE IF MakeDirsRaises(fs, directory)
           THEN /\ log' = Append(log, Ev("makedirs", 0, directory, FALSE))
                /\ mpc' = "raised"
                /\ merr' = "NotADirectoryError"
                /\ UNCHANGED <<fs, directories>>
           ELSE /\ log' = Append(log, Ev("makedirs", 0, directory, TRUE))
                /\ fs' = MakeDirs(fs, directory)
                /\ directories' = Tail(directories)
                /\ mpc' = IF Tail(directories) = <<>>
                          THEN PhaseAfter("dirs", args, dirs_to_create, git_repos)
                          ELSE "dirs"
                /\ merr' = "none"
    /\ UNCHANGED <<settings, args, repo_i>>
    /\ UNCHANGED <<parserVars, nameVars, indentVars, twiceVars>>

\* the end of one turn of a loop over git_repos, lines 192 and 197
LoopOn(phase) ==
    /\ repo_i' = IF repo_i < Len(git_repos) THEN repo_i + 1 ELSE 1
    /\ mpc' = IF repo_i < Len(git_repos) THEN phase
              ELSE PhaseAfter(phase, args, dirs_to_create, git_repos)

\* an exception leaves main
Raise(exception) ==
    /\ mpc' = "raised"
    /\ merr' = exception
    /\ UNCHANGED repo_i

\* one call of clone_repo, line 193 and lines 58-90
CloneRepo ==
    /\ mpc = "clone"
    /\ LET repo == git_repos[repo_i]
           status == RepoStatus(fs, repo)
           full == status.full_repo_path
       IN  \E answer \in (IF status.is_git_repo THEN RemoteAnswers ELSE {"none"}) :
             LET plan == ClonePlan(status.exists, status.is_git_repo,
                                   answer = "same", args.force)
                 asked == <<Ev("clone_repo", repo_i, full, TRUE)>>
                          \o RemoteQuery(repo_i, status, answer)
             IN  IF plan \in {"same", "different", "notgit"}
                 THEN /\ log' = log \o asked \o <<Ev(plan, repo_i, full, TRUE)>>
                      /\ fs' = fs
                      /\ merr' = "none"
                      /\ LoopOn("clone")
                 ELSE \E removed \in (IF plan = "remove" THEN BOOLEAN ELSE {TRUE}),
                         cloned \in BOOLEAN :
                        LET after == IF plan = "remove" THEN RmTree(fs, full) ELSE fs
                            rm == IF plan = "remove"
                                  THEN <<Ev("rmtree", repo_i, full, removed)>>
                                  ELSE <<>>
                        IN  IF ~removed
                            THEN /\ log' = log \o asked \o rm
                                 /\ fs' \in RmTreeFailed(fs, full)
                                 /\ Raise("OSError")
                            ELSE IF CwdError(after, status.parent_dir) # "none"
                            THEN /\ log' = log \o asked \o rm
                                             \o <<Ev("clone", repo_i, full, FALSE)>>
                                 /\ fs' = after
                                 /\ Raise(CwdError(after, status.parent_dir))
                            ELSE /\ cloned => after[full] = "absent"
                                 /\ log' = log \o asked \o rm
                                             \o <<Ev("clone", repo_i, full, cloned)>>
                                 /\ fs' \in IF cloned THEN {Cloned(after, full)}
                                           ELSE CloneFailed(after, full)
                                 /\ merr' = "none"
                                 /\ LoopOn("clone")
    /\ UNCHANGED <<settings, args, directories>>
    /\ UNCHANGED <<parserVars, nameVars, indentVars, twiceVars>>

\* one call of pull_repo, line 198 and lines 92-109
PullRepo ==
    /\ mpc = "pull"
    /\ LET repo == git_repos[repo_i]
           status == RepoStatus(fs, repo)
           full == status.full_repo_path
       IN  \E answer \in (IF status.is_git_repo THEN RemoteAnswers ELSE {"none"}),
              stash_ok \in BOOLEAN, drop_ok \in BOOLEAN, pull_ok \in BOOLEAN :
             LET plan == PullPlan(status.exists, status.is_git_repo)
                 asked == <<Ev("pull_repo", repo_i, full, TRUE)>>
                          \o RemoteQuery(repo_i, status, answer)
             IN  /\ log' = log \o asked
                             \o (IF plan = "pull"
                                 THEN PullCommands(repo_i, full, args.force,
                                                   stash_ok, drop_ok, pull_ok)
                                 ELSE <<Ev(plan, repo_i, full, TRUE)>>)
                 /\ fs' = fs
                 /\ merr' = "none"
                 /\ LoopOn("pull")
    /\ UNCHANGED <<settings, args, directories>>
    /\ UNCHANGED <<parserVars, nameVars, indentVars, twiceVars>>

NextMain == CheckGit \/ ParseSettings \/ MakeDirectory \/ CloneRepo \/ PullRepo

SpecMain == InitMain /\ [][NextMain]_vars

----------------------------------------------------------------------------
(* Vocabulary of the properties *)

\* a line of blanks and tabs only, up to its newline
WhitespaceOnly(rawline) ==
    \A i \in 1..Len(rawline) : rawline[i] \in {" ", "\t", "\n"}

\* the lines of a file that are not blank
RECURSIVE NonBlank(_)
NonBlank(lines) ==
    IF lines = <<>> THEN <<>>
    ELSE IF WhitespaceOnly(Head(lines)) THEN NonBlank(Tail(lines))
    ELSE <<Head(lines)>> \o NonBlank(Tail(lines))

\* the text of a line, and its indentation width
TextOf(rawline) == Content(RStripNewline(rawline))
WidthOf(rawline) == IndentLength(RStripNewline(rawline))

\* the line the step just read
JustRead == Last(read')

\* a step that puts one more line through the loop body
ReadsLine == pc = "parsing" /\ Len(read') = Len(read) + 1

\* the words of the specification for a repository leaf
LooksLikeRemote(text) ==
    /\ (StartsWith(text, <<"g", "i", "t", "@">>)
          \/ StartsWith(text, <<"h", "t", "t", "p", "s", ":", "/", "/">>))
    /\ EndsWith(text, <<".", "g", "i", "t">>)

\* the path-join of segments, the empty path for no segment, home shorthand expanded
PathOf(segs) == IF segs = <<>> THEN <<>> ELSE ExpandUser(PathJoin(segs))

Proj == <<"p", "r", "o", "j">>
ProjSub == <<"p", "r", "o", "j", "/", "s", "u", "b">>
Sub == <<"s", "u", "b">>
Example2Url == <<"h", "t", "t", "p", "s", ":", "/", "/", "g", "i", "t", ".", "a", "d", "d",
                 "r", "/", "e", "x", "a", "m", "p", "l", "e", "2", ".", "g", "i", "t">>
ChildUrl == <<"g", "i", "t", "@", "h", "o", "s", "t", ":", "t", "e", "a", "m", "/", "c", "h",
              "i", "l", "d", ".", "g", "i", "t">>

----------------------------------------------------------------------------
(* C1 *)

\* C1: a non-blank line whose width is smaller than every width on the indent stack is
\* handled without an exception: afterwards the indent stack holds that width alone
\* and the segment stack holds that line's text alone.
C1_DedentBelowAllIsReleveled ==
    [][(/\ ReadsLine
        /\ ~WhitespaceOnly(JustRead)
        /\ indent_levels # <<>>
        /\ \A i \in 1..Len(indent_levels) : WidthOf(JustRead) < indent_levels[i])
       => (/\ err' = "none"
           /\ indent_levels' = <<WidthOf(JustRead)>>
           /\ stack' = <<TextOf(JustRead)>>)]_vars

----------------------------------------------------------------------------
(* C2 *)

\* C2 as stated: get_repo_name applied to its own result returns that result, for
\* every input.
C2_Idempotent == npc = "twice" => repo_name2 = repo_name

\* C2 as amended: get_repo_name applied to its own result returns that result unless
\* the result still ends in ".git" (an input ending in ".git.git"), and then it
\* returns the result without that suffix.
C2_IdempotentUnlessDotGitLeft ==
    npc = "twice" =>
        IF EndsWith(repo_name, <<".", "g", "i", "t">>)
        THEN repo_name2 = SubSeq(repo_name, 1, Len(repo_name) - 4)
        ELSE repo_name2 = repo_name

C2_Witness ==
    /\ npc = "twice"
    /\ Contains(git_url, "/") /\ Contains(git_url, ":")
    /\ EndsWith(git_url, <<".", "g", "i", "t">>)
    /\ repo_name # <<>>
    /\ repo_name2 = repo_name

----------------------------------------------------------------------------
(* C3 *)

\* C3: after every line, the widths on indent_levels are strictly increasing from the
\* base to the top.
C3_WidthsStrictlyIncreasing ==
    \A i \in 1..(Len(indent_levels) - 1) : indent_levels[i] < indent_levels[i + 1]

\* a dedent to a width not seen before, between two widths of the stack
C3_Witness ==
    /\ pc = "parsing"
    /\ Len(read) = 3
    /\ WidthOf(read[2]) = 8
    /\ indent_levels = <<0, 4>>

----------------------------------------------------------------------------
(* C4 *)

\* C4: every line classified as a repository leaf appends exactly one descriptor,
\* whose git_url is the line's text and whose path is the path-join of the stack
\* segments below the leaf, also when there is none.
C4_LeafAppendsOneDescriptor ==
    [][(ReadsLine /\ branch' = "repo")
       => (/\ err' = "none"
           /\ git_repos' = Append(git_repos, [path |-> PathOf(Front(stack')),
                                              git_url |-> TextOf(JustRead)]))]_vars

----------------------------------------------------------------------------
(* C5 *)

\* C5: a non-blank line is taken as a repository leaf exactly when its text starts
\* with "git@" or "https://" and ends with ".git"; any other line is taken as a
\* directory: it adds the path-join of the whole stack to dirs_to_create and appends
\* no descriptor.
C5_LeafIffPrefixAndSuffix ==
    [][(ReadsLine /\ ~WhitespaceOnly(JustRead))
       => (/\ (branch' = "repo") = LooksLikeRemote(TextOf(JustRead))
           /\ (branch' = "dir") = ~LooksLikeRemote(TextOf(JustRead))
           /\ branch' = "dir" =>
                /\ err' = "none"
                /\ dirs_to_create' = dirs_to_create \cup {PathOf(stack')}
                /\ Last(stack') = TextOf(JustRead)
                /\ git_repos' = git_repos
           /\ Len(git_repos') > Len(git_repos) => branch' = "repo")]_vars

\* The same for the lines that reach the test of line 153, which are all but those on
\* which the stack adjustment raised IndexError.
ClassifiedLeafIffPrefixAndSuffix ==
    [][(ReadsLine /\ ~WhitespaceOnly(JustRead))
       => (/\ (branch' = "repo") = (err' # "IndexError" /\ LooksLikeRemote(TextOf(JustRead)))
           /\ (branch' = "dir") = (err' # "IndexError" /\ ~LooksLikeRemote(TextOf(JustRead)))
           /\ branch' = "dir" =>
                /\ err' = "none"
                /\ dirs_to_create' = dirs_to_create \cup {PathOf(stack')}
                /\ Last(stack') = TextOf(JustRead)
                /\ git_repos' = git_repos
           /\ Len(git_repos') > Len(git_repos) => branch' = "repo")]_vars

\* a name ending in ".git" and a remote without ".git" were both taken as directories
ClassifiedWitness ==
    /\ pc = "parsing"
    /\ Len(read) = 3
    /\ read[2] = DotGitNameLine
    /\ read[3] = NoSuffixLine
    /\ branch = "dir"
    /\ git_repos = <<>>
    /\ Cardinality(dirs_to_create) = 3

----------------------------------------------------------------------------
(* C6 *)

\* C6: a blank or whitespace-only line leaves indent_levels, stack, dirs_to_create and
\* git_repos as they were, and after any lines the parser is where it would be after
\* the same lines with the blank ones taken out.
C6_BlankLinesAreSkipped ==
    /\ [](LET p == Parse(NonBlank(read))
          IN /\ indent_levels = p.indent_levels
             /\ stack = p.stack
             /\ dirs_to_create = p.dirs_to_create
             /\ git_repos = p.git_repos
             /\ err = p.err)
    /\ [][(ReadsLine /\ WhitespaceOnly(JustRead))
          => UNCHANGED <<indent_levels, stack, dirs_to_create, git_repos, err, pc>>]_vars

\* a whitespace-only line between a directory and the repository below it
C6_Witness ==
    /\ pc = "returned"
    /\ Len(read) = 4
    /\ read[1] = ProjLine
    /\ read[2] = SpacesLine
    /\ read[3] = EmptyLine
    /\ read[4] = Example2Line
    /\ Len(git_repos) = 1
    /\ dirs_to_create = {Proj}

----------------------------------------------------------------------------
(* C7 *)

\* C7: the four lines proj, https://git.addr/example2.git (4), sub (4),
\* git@host:team/child.git (8) give the directories proj and proj/sub and the
\* descriptors (proj, https://git.addr/example2.git), (proj/sub,
\* git@host:team/child.git) in this order; the line sub takes the place of the
\* repository line on the stack.
C7_Scenario ==
    /\ (pc = "parsing" /\ read = SubSeq(Scenario, 1, 3)) => stack = <<Proj, Sub>>
    /\ (pc = "returned" /\ read = Scenario) =>
          /\ dirs_to_create = {Proj, ProjSub}
          /\ git_repos = <<[path |-> Proj, git_url |-> Example2Url],
                           [path |-> ProjSub, git_url |-> ChildUrl]>>

C7_Witness ==
    /\ pc = "returned"
    /\ read = Scenario
    /\ Len(git_repos) = 2

----------------------------------------------------------------------------
(* C8 *)

\* every line is indented strictly more than the one before it
StrictlyDeeper(lines) ==
    \A i \in 1..(Len(lines) - 1) : WidthOf(lines[i]) < WidthOf(lines[i + 1])

TextsOf(lines) == [i \in 1..Len(lines) |-> TextOf(lines[i])]

\* the path of every directory line: the path-join of the lines down to it
ChainDirs(texts) ==
    {PathOf(SubSeq(texts, 1, i)) : i \in {j \in 1..Len(texts) : ~LooksLikeRemote(texts[j])}}

\* a descriptor for every repository line: the path-join of the lines above it
RECURSIVE ChainRepos(_, _)
ChainRepos(texts, n) ==
    IF n = 0 THEN <<>>
    ELSE IF LooksLikeRemote(texts[n])
    THEN Append(ChainRepos(texts, n - 1),
                [path |-> PathOf(SubSeq(texts, 1, n - 1)), git_url |-> texts[n]])
    ELSE ChainRepos(texts, n - 1)

\* C8: for a file whose non-blank lines are each indented strictly more than the one
\* before, the parser returns, dirs_to_create holds the path-join of lines 1..i for
\* every directory line i and nothing else, and every descriptor's path is the
\* path-join of the lines above its repository line.
C8_NestedChainPaths ==
    (pc # "parsing" /\ StrictlyDeeper(NonBlank(read))) =>
        /\ pc = "returned"
        /\ dirs_to_create = ChainDirs(TextsOf(NonBlank(read)))
        /\ git_repos = ChainRepos(TextsOf(NonBlank(read)), Len(NonBlank(read)))

----------------------------------------------------------------------------
(* C9 *)

\* C9: after any lines, the path of every descriptor in git_repos is in dirs_to_create.
C9_ParentPathsAreDirs ==
    \A i \in 1..Len(git_repos) : git_repos[i].path \in dirs_to_create

\* a repository line below a repository line: its path is no directory line's path
C9_Witness ==
    /\ Len(read) = 3
    /\ read[1] = ProjLine
    /\ read[2] = Example2Line
    /\ read[3] = ChildLine
    /\ Len(git_repos) = 2
    /\ git_repos[2].path = PathJoin(<<Proj, Example2Url>>)

----------------------------------------------------------------------------
(* C10 *)

\* C10: the name get_repo_name returns holds no "/" and no ":".
C10_NoSeparatorInName ==
    npc # "start" => ~Contains(repo_name, "/") /\ ~Contains(repo_name, ":")

C10_Witness ==
    /\ npc = "once"
    /\ Contains(git_url, "/")
    /\ Contains(SubSeq(git_url, 5, Len(git_url)), ":")
    /\ repo_name = <<"G", "i", "t", "I", "n", "i", "t">>

----------------------------------------------------------------------------
(* C11 *)

\* C11: for a name without "/" and ":", get_repo_name returns that name for
\* git@h:g/<name>.git, git@h:<name>.git and https://h/p/<name>.git, cutting one
\* trailing ".git" only; git@github.com:user/Example.git gives Example and
\* https://git.addr/example2.git gives example2.
C11_NameOfRemoteUrl ==
    npc # "start" =>
        /\ \A n \in RepoNames :
              git_url \in {SshGroupUrl(n), SshUrl(n), HttpsUrl(n)} => repo_name = n
        /\ git_url = ExampleUrl => repo_name = <<"E", "x", "a", "m", "p", "l", "e">>
        /\ git_url = Example2Url => repo_name = <<"e", "x", "a", "m", "p", "l", "e", "2">>

\* an SSH URL without a slash whose name itself ends in ".git"
C11_Witness ==
    /\ npc = "once"
    /\ git_url = SshUrl(<<"a", ".", "g", "i", "t">>)
    /\ repo_name = <<"a", ".", "g", "i", "t">>

----------------------------------------------------------------------------
(* C16 *)

\* the first line is indented no more than any other
FirstIsShallowest(lines) ==
    \A i \in 1..Len(lines) : WidthOf(lines[1]) <= WidthOf(lines[i])

\* the positions of the lines indented less than w
Shallower(lines, w) == {i \in 1..Len(lines) : WidthOf(lines[i]) < w}

Largest(S) == CHOOSE x \in S : \A y \in S : y <= x

\* the entries of levels that are smaller than w
Below(levels, w) == LET Lt(x) == x < w IN SelectSeq(levels, Lt)

\* C16: in a file whose first non-blank line is indented least, after a line of width
\* w the stack entry below the line is the text of the nearest earlier non-blank line
\* indented less than w, and there is none exactly when no earlier line is indented
\* less; the stacks are the old ones without the entries of width >= w, with the
\* line pushed.
C16_ParentIsNearestShallower ==
    [][(/\ ReadsLine
        /\ ~WhitespaceOnly(JustRead)
        /\ FirstIsShallowest(NonBlank(read')))
       => LET w == WidthOf(JustRead)
              before == NonBlank(read)
              up == Shallower(before, w)
              kept == Len(Below(indent_levels, w))
          IN /\ err' # "IndexError"
             /\ indent_levels' = Append(Below(indent_levels, w), w)
             /\ stack' = Append(SubSeq(stack, 1, kept), TextOf(JustRead))
             /\ (up = {}) = (Len(stack') = 1)
             /\ up # {} => stack'[Len(stack') - 1] = TextOf(before[Largest(up)])]_vars

\* a dedent to a width not seen before: sub (4) after proj (0) and a line at 8
C16_Witness ==
    /\ pc \in {"parsing", "returned"}
    /\ Len(read) = 3
    /\ read[1] = ProjLine
    /\ WidthOf(read[2]) = 8
    /\ read[3] = SubLine
    /\ stack = <<Proj, Sub>>

----------------------------------------------------------------------------
(* C17 *)

\* path holds text as one of its "/"-separated stretches
HasSegment(path, text) ==
    \E i \in 1..(Len(path) - Len(text) + 1) :
        /\ SubSeq(path, i, i + Len(text) - 1) = text
        /\ (i = 1 \/ path[i - 1] = Sep)
        /\ (i + Len(text) - 1 = Len(path) \/ path[i + Len(text)] = Sep)

\* the texts of the repository lines read
LeafTexts == {TextOf(read[i]) : i \in {j \in 1..Len(read) : LooksLikeRemote(TextOf(read[j]))}}

\* C17: no path of dirs_to_create and no path of a descriptor holds the text of a
\* repository line as a segment, also when a line is indented deeper than a
\* repository line before it.
C17_NothingBelowARepository ==
    \A t \in LeafTexts :
        /\ \A d \in dirs_to_create : ~HasSegment(d, t)
        /\ \A i \in 1..Len(git_repos) : ~HasSegment(git_repos[i].path, t)

----------------------------------------------------------------------------
(* C20 *)

\* how many times c stands in s
RECURSIVE Count(_, _)
Count(s, c) ==
    IF s = <<>> THEN 0 ELSE (IF Head(s) = c THEN 1 ELSE 0) + Count(Tail(s), c)

\* the column reached after s from column col: a blank moves one column on, a tab to
\* the next multiple of 4
RECURSIVE ColumnAfter(_, _)
ColumnAfter(s, col) ==
    IF s = <<>> THEN col
    ELSE ColumnAfter(Tail(s), IF Head(s) = "\t" THEN col + 4 - (col % 4) ELSE col + 1)

\* every tab of s stands at a multiple of 4 columns
TabsAtStops(s) ==
    \A i \in 1..Len(s) : s[i] = "\t" => ColumnAfter(SubSeq(s, 1, i - 1), 0) % 4 = 0

\* C20 as stated: the width of a line is its leading blanks plus 4 times its leading
\* tabs, for every mix and order of them.
C20_WidthIsBlanksPlusFourTabs ==
    measured.done => measured.upper = Count(lead[1], " ") + 4 * Count(lead[1], "\t")

\* C20 as amended: the width of a line is the column its leading whitespace reaches,
\* a blank counting 1 and a tab reaching the next multiple of 4; that is its blanks
\* plus 4 times its tabs exactly when every tab stands at a multiple of 4 columns;
\* two lines of the same width are siblings, as a line behind one tab and a line
\* behind four blanks are.
C20_WidthIsTabStopColumn ==
    measured.done =>
        /\ measured.upper = ColumnAfter(lead[1], 0)
        /\ measured.lower = ColumnAfter(lead[2], 0)
        /\ (measured.upper = Count(lead[1], " ") + 4 * Count(lead[1], "\t"))
              = TabsAtStops(lead[1])
        /\ measured.upper = measured.lower => measured.stack = <<<<"b">>>>
        /\ lead = <<<<"\t">>, <<" ", " ", " ", " ">>>> =>
              measured.upper = 4 /\ measured.lower = 4 /\ measured.stack = <<<<"b">>>>

\* a blank before a tab above four blanks: both of width 4
C20_Witness ==
    /\ measured.done
    /\ lead = <<<<" ", "\t">>, <<" ", " ", " ", " ">>>>
    /\ measured.upper = 4
    /\ measured.stack = <<<<"b">>>>

----------------------------------------------------------------------------
(* C12 *)

\* the places of the log where one of the operations ops was invoked
Places(ops) == {i \in 1..Len(log) : log[i].op \in ops}

DirectoryOps == {"makedirs", "found"}
CallOps == {"clone_repo", "pull_repo"}

\* the directories created or found existing before place i
SettledBefore(i) ==
    {log[j].path : j \in {k \in Places(DirectoryOps) : k < i /\ log[k].ok}}

\* the calls of one operation went through the descriptors 1, 2, ... in order
InDescriptorOrder(op) ==
    LET calls == SelectSeq(log, LAMBDA e : e.op = op)
    IN  \A k \in 1..Len(calls) : calls[k].repo = k

\* C12: the parse comes first in the log, no directory is created or found
\* after a clone_repo or pull_repo call, every directory of dirs_to_create is
\* settled before the first such call, no clone_repo call follows a pull_repo
\* call, the calls of each kind take the descriptors in order, and every git
\* or file operation after a call belongs to the descriptor of the latest call.
C12_PhasesInOrder ==
    /\ \A i \in Places({"parse"}) : i = 1
    /\ \A i \in Places(DirectoryOps \cup CallOps) : 1 \in Places({"parse"})
    /\ \A i \in Places(DirectoryOps) : \A j \in Places(CallOps) : i < j
    /\ \A j \in Places(CallOps) : SettledBefore(j) = dirs_to_create
    /\ \A i \in Places({"clone_repo"}) : \A j \in Places({"pull_repo"}) : i < j
    /\ InDescriptorOrder("clone_repo")
    /\ InDescriptorOrder("pull_repo")
    /\ \A i \in Places(CallOps) : \A j \in (i + 1)..Len(log) :
          (\A k \in (i + 1)..j : log[k].op \notin CallOps) => log[j].repo = log[i].repo

\* a run that cloned and pulled both repositories of the worked example
C12_Witness ==
    /\ mpc = "done"
    /\ args.clone /\ args.pull
    /\ Len(git_repos) = 2
    /\ \E i \in Places({"clone"}) : log[i].repo = 2
    /\ \E i \in Places({"pull"}) : log[i].repo = 2
    /\ \E i \in Places({"makedirs"}) : log[i].ok

----------------------------------------------------------------------------
(* C13 *)

\* the invocations of git
GitOps == {"remote", "clone", "stash", "drop", "pull"}

\* the call, clone_repo or pull_repo, the operation at place i belongs to
CallAt(i) ==
    LET before == {k \in Places(CallOps) : k <= i}
    IN  log[CHOOSE k \in before : \A j \in before : j <= k].op

\* main runs no more
Over == mpc \in {"done", "raised", "exit"}

\* C13: a git invocation that failed is never the operation main raised at,
\* and when the run is over every descriptor after the one whose git
\* invocation failed has been given to the same function (clone_repo or
\* pull_repo) after the failure.
C13_GitFailuresDoNotPropagate ==
    \A i \in Places(GitOps) :
        ~log[i].ok =>
            /\ ~(mpc = "raised" /\ i = Len(log))
            /\ Over => \A d \in (log[i].repo + 1)..Len(git_repos) :
                          \E j \in Places({CallAt(i)}) : j > i /\ log[j].repo = d

\* what holds of the code: a git command that was started and exited with a
\* status other than 0 is caught, main raises at a git invocation only when
\* the command could not be started in its working directory
ExitFailuresAreCaught ==
    (mpc = "raised" /\ log # <<>> /\ Last(log).op \in GitOps)
        => /\ Last(log).op = "clone"
           /\ merr \in {"NotADirectoryError", "FileNotFoundError"}
           /\ ~IsDir(fs, git_repos[Last(log).repo].path)

----------------------------------------------------------------------------
(* C14 *)

\* the operations the step added to the log
Added == SubSeq(log', Len(log) + 1, Len(log'))

\* the step is one call of f, clone_repo or pull_repo
Calls(f) == Len(log') > Len(log) /\ log'[Len(log) + 1].op = f

\* the step invoked op, and the step invoked op with success
Invoked(op) == \E k \in 1..Len(Added) : Added[k].op = op
Succeeded(op) == \E k \in 1..Len(Added) : Added[k].op = op /\ Added[k].ok

\* the local directory of the descriptor the step is called on
LocalPath == log'[Len(log) + 1].path

\* C14: in a call of clone_repo, rmtree is invoked exactly when force is set
\* and the local directory exists, and a removal that succeeded is followed at
\* once by the clone; without force an existing local directory is left as it
\* is, with no removal and no clone, and the call reports the skip that fits
\* what stands there; clone is invoked without a removal exactly when the local
\* directory does not exist.
C14_RemovalOnlyForcedAndExisting ==
    [][Calls("clone_repo") =>
         /\ Invoked("rmtree") <=> (args.force /\ IsDir(fs, LocalPath))
         /\ \A k \in 1..Len(Added) :
               (Added[k].op = "rmtree" /\ Added[k].ok)
                   => (k < Len(Added) /\ Added[k + 1].op = "clone")
         /\ (~args.force /\ IsDir(fs, LocalPath)) =>
               /\ ~Invoked("rmtree")
               /\ ~Invoked("clone")
               /\ fs' = fs
               /\ Last(Added).op \in {"same", "different", "notgit"}
               /\ Last(Added).op = "notgit" <=> fs[LocalPath] = "dir"
         /\ (Invoked("clone") /\ ~Invoked("rmtree")) <=> ~IsDir(fs, LocalPath)
      ]_vars

\* a forced run removed an existing local directory and cloned into its place,
\* and cloned without a removal where there was no local directory
C14_Witness ==
    /\ args.force
    /\ \E i \in Places({"rmtree"}) :
          /\ log[i].ok
          /\ log[i + 1].op = "clone" /\ log[i + 1].ok
          /\ fs[log[i].path] = "repo"
    /\ \E i \in Places({"clone"}) : log[i - 1].op = "clone_repo"

----------------------------------------------------------------------------
(* C18 *)

\* C18: a forced call of clone_repo whose removal of the local directory
\* failed invokes no clone, lets no exception out of main, and leaves main in
\* the loop at the next descriptor or in the phase after the loop.
C18_FailedRemovalSkipsClone ==
    [][(Calls("clone_repo") /\ args.force /\ Invoked("rmtree") /\ ~Succeeded("rmtree"))
          => /\ ~Invoked("clone")
             /\ mpc' # "raised"
             /\ merr' = "none"
             /\ IF repo_i < Len(git_repos)
                THEN mpc' = "clone" /\ repo_i' = repo_i + 1
                ELSE mpc' \in {"pull", "done"}
      ]_vars

----------------------------------------------------------------------------
(* C19 *)

\* where the step invoked op among the operations it added, 0 if it did not
PlaceAdded(op) ==
    IF Invoked(op) THEN CHOOSE k \in 1..Len(Added) : Added[k].op = op ELSE 0

\* the step invoked op no more than once
AtMostOnce(op) == Cardinality({k \in 1..Len(Added) : Added[k].op = op}) <= 1

\* C19: in a call of pull_repo, pull is invoked exactly when a directory with
\* a .git directory stands at the local path; stash is invoked only with
\* force and then before the pull; stash drop is invoked only right after a
\* stash that succeeded; and the pull is invoked also when the stash or the
\* stash drop failed. None of the three is invoked twice.
C19_PullAndStashOrder ==
    [][Calls("pull_repo") =>
         /\ Invoked("pull") <=> fs[LocalPath] = "repo"
         /\ AtMostOnce("pull") /\ AtMostOnce("stash") /\ AtMostOnce("drop")
         /\ Invoked("stash") =>
               /\ args.force
               /\ Invoked("pull")
               /\ PlaceAdded("stash") < PlaceAdded("pull")
         /\ Invoked("drop") =>
               /\ PlaceAdded("drop") = PlaceAdded("stash") + 1
               /\ Succeeded("stash")
               /\ PlaceAdded("drop") < PlaceAdded("pull")
         /\ (Invoked("stash") /\ ~Succeeded("stash")) => Last(Added).op = "pull"
         /\ (Invoked("drop") /\ ~Succeeded("drop")) => Last(Added).op = "pull"
      ]_vars

\* a forced run pulled one repository after a stash that failed and the other
\* after a stash drop that failed
C19_Witness ==
    /\ args.force
    /\ mpc = "done"
    /\ \E i \in Places({"stash"}) : ~log[i].ok /\ log[i + 1].op = "pull"
    /\ \E i \in Places({"drop"}) :
          /\ ~log[i].ok
          /\ log[i - 1].op = "stash" /\ log[i - 1].ok
          /\ log[i + 1].op = "pull"

====
